---- MODULE Spec2Model ----
(***************************************************************************)
(* tfdeps - Terraform module dependency analyzer (src/.harness/tfdeps.py). *)
(*                                                                         *)
(* Strings are sequences of one-character strings, so that substring       *)
(* tests, regular-expression matching, sorting and report rendering are    *)
(* computed the way the Python code computes them.                         *)
(***************************************************************************)
EXTENDS Integers, Sequences, FiniteSets, TLC

VARIABLES
    entries,            \* disk: kind of every name under the modules directory
    files,              \* disk: the files of every module directory
    report_file,        \* disk: content of dependencies.txt, NoFile if absent
    pc,                 \* position of the process in main() / run()
    modules_dir,        \* self.modules_dir
    all_modules,        \* self.all_modules
    dependencies,       \* self.dependencies
    provider_aliases,   \* self.provider_aliases
    modules,            \* run(): the list returned by scan_modules
    idx,                \* run(): position of the for loop in modules
    stdout,             \* messages printed by the process
    exit_status,        \* status handed to sys.exit, Running before that
    run_no,             \* how many times the tool has been started
    prev_report,        \* dependencies.txt as the previous run left it
    input,              \* argument handed to a text function on its own
    result              \* value it returned

disk == <<entries, files>>
analyzer == <<modules_dir, all_modules, dependencies, provider_aliases>>
process == <<pc, modules, idx, stdout, exit_status>>
text == <<input, result>>
vars == <<entries, files, report_file, pc, modules_dir, all_modules,
          dependencies, provider_aliases, modules, idx, stdout, exit_status,
          run_no, prev_report, input, result>>

-----------------------------------------------------------------------------
(* String primitives used by the code: slicing, `in`, startswith, endswith *)

\* p occurs in s at index i
StartsAt(s, i, p) ==
    /\ i + Len(p) - 1 <= Len(s)
    /\ \A k \in 1..Len(p) : s[i + k - 1] = p[k]

\* least element of a non-empty set of integers
Least(S) == CHOOSE j \in S : \A k \in S : j <= k

\* index of the first occurrence of p in s at or after i, 0 when there is none
Find(s, p, i) ==
    LET at == { j \in i..(Len(s) - Len(p) + 1) : StartsAt(s, j, p) } IN
    IF at = {} THEN 0 ELSE Least(at)

\* Python's `p in s`
Contains(s, p) == Find(s, p, 1) # 0

\* Python's s.startswith(p) and s.endswith(p)
StartsWith(s, p) == StartsAt(s, 1, p)
EndsWith(s, p) == Len(p) <= Len(s) /\ StartsAt(s, Len(s) - Len(p) + 1, p)

\* s[i..j-1]
Slice(s, i, j) == [k \in 1..(j - i) |-> s[i + k - 1]]

-----------------------------------------------------------------------------
(* remove_comments                                                         *)

BlockOpen == <<"/", "*">>
BlockClose == <<"*", "/">>
SlashSlash == <<"/", "/">>
Hash == <<"#">>
NL == "\n"

\* re.sub(r'/\*.*?\*/', '', content, flags=re.DOTALL): leftmost, shortest
RECURSIVE SubBlockComments(_, _)
SubBlockComments(s, i) ==
    LET open == Find(s, BlockOpen, i)
        close == Find(s, BlockClose, open + 2)
    IN  IF open = 0 \/ close = 0 THEN Slice(s, i, Len(s) + 1)
        ELSE Slice(s, i, open) \o SubBlockComments(s, close + 2)

\* first index at or after i holding a newline, Len(s)+1 when there is none:
\* the place where '$' matches under re.MULTILINE
EndOfLine(s, i) ==
    LET nl == { j \in i..Len(s) : s[j] = NL } IN
    IF nl = {} THEN Len(s) + 1 ELSE Least(nl)

\* re.sub(marker + r'.*?$', '', content, flags=re.MULTILINE)
RECURSIVE SubLineComments(_, _, _)
SubLineComments(s, marker, i) ==
    LET m == Find(s, marker, i) IN
    IF m = 0 THEN Slice(s, i, Len(s) + 1)
    ELSE Slice(s, i, m) \o SubLineComments(s, marker, EndOfLine(s, m))

remove_comments(content) ==
    SubLineComments(
        SubLineComments(SubBlockComments(content, 1), SlashSlash, 1),
        Hash, 1)

-----------------------------------------------------------------------------
(* The three regular expressions, matched the way re.findall matches them  *)

IsSpace(c) == c \in {" ", "\n", "\t"}
Quote == "\""

\* index after the run of whitespace that starts at i
SkipSpace(s, i) ==
    LET stop == { j \in i..Len(s) : ~IsSpace(s[j]) } IN
    IF stop = {} THEN Len(s) + 1 ELSE Least(stop)

\* index of the next double quote at or after i, 0 when there is none
NextQuote(s, i) ==
    LET q == { j \in i..Len(s) : s[j] = Quote } IN
    IF q = {} THEN 0 ELSE Least(q)

\* pattern items: a literal, \s+, \s*, "[^"]+" and "([^"]+)"
Lit(p) == [k |-> "lit", s |-> p]
Ws1 == [k |-> "ws1", s |-> <<>>]
Ws0 == [k |-> "ws0", s |-> <<>>]
Str == [k |-> "str", s |-> <<>>]
Cap == [k |-> "cap", s |-> <<>>]

NoMatch == [end |-> 0, cap |-> <<>>]

\* match items k.. of pat against s at i; end is the index after the match
RECURSIVE MatchItems(_, _, _, _, _)
MatchItems(pat, k, s, i, cap) ==
    IF k > Len(pat) THEN [end |-> i, cap |-> cap]
    ELSE LET it == pat[k] IN
      CASE it.k = "lit" ->
             IF StartsAt(s, i, it.s)
             THEN MatchItems(pat, k + 1, s, i + Len(it.s), cap)
             ELSE NoMatch
        [] it.k = "ws1" ->
             IF SkipSpace(s, i) > i
             THEN MatchItems(pat, k + 1, s, SkipSpace(s, i), cap)
             ELSE NoMatch
        [] it.k = "ws0" ->
             MatchItems(pat, k + 1, s, SkipSpace(s, i), cap)
        [] OTHER ->
             LET q == NextQuote(s, i + 1) IN
             IF i <= Len(s) /\ s[i] = Quote /\ q > i + 1
             THEN MatchItems(pat, k + 1, s, q + 1,
                             IF it.k = "cap" THEN Slice(s, i + 1, q) ELSE cap)
             ELSE NoMatch

\* re.findall(pat, s): the captured groups of the non-overlapping matches,
\* scanning left to right (every caller only adds them to a set)
\* (a match can only start where the pattern's leading keyword occurs)
RECURSIVE FindAll(_, _, _)
FindAll(pat, s, i) ==
    LET j == Find(s, pat[1].s, i) IN
    IF j = 0 THEN {}
    ELSE LET m == MatchItems(pat, 1, s, j, <<>>) IN
         IF m.end # 0 THEN {m.cap} \cup FindAll(pat, s, m.end)
         ELSE FindAll(pat, s, j + 1)

\* r'module\s+"([^"]+)"\s*\{'
ModulePattern ==
    <<Lit(<<"m", "o", "d", "u", "l", "e">>), Ws1, Cap, Ws0, Lit(<<"{">>)>>

\* r'data\s+"[^"]+"\s+"([^"]+)"\s*\{'
DataPattern ==
    <<Lit(<<"d", "a", "t", "a">>), Ws1, Str, Ws1, Cap, Ws0, Lit(<<"{">>)>>

\* r'alias\s*=\s*"([^"]+)"'
AliasPattern ==
    <<Lit(<<"a", "l", "i", "a", "s">>), Ws0, Lit(<<"=">>), Ws0, Cap>>

-----------------------------------------------------------------------------
(* Naming-pattern inference of extract_implicit_dependencies               *)

Vpc == <<"_", "v", "p", "c">>
Inner == <<"i", "n", "n", "e", "r">>
Outer == <<"o", "u", "t", "e", "r">>
InnerVpc == Inner \o Vpc
OuterVpc == Outer \o Vpc
None == <<>>

\* the inner/outer tests are taken in the opposite order
InferOuterFirst(data_name) ==
    IF Contains(data_name, Vpc) THEN
        IF Contains(data_name, Outer) THEN OuterVpc
        ELSE IF Contains(data_name, Inner) THEN InnerVpc
        ELSE LET prefix == Slice(data_name, 1, Find(data_name, Vpc, 1)) IN
             IF prefix # <<>> THEN prefix \o Vpc ELSE None
    ELSE IF Contains(data_name, Outer) THEN OuterVpc
    ELSE IF Contains(data_name, Inner) THEN InnerVpc
    ELSE None

\* module_name computed for one data block name; None when nothing is inferred
InferModule(data_name) ==
    IF Contains(data_name, Vpc) THEN
        IF Contains(data_name, Inner) THEN InnerVpc
        ELSE IF Contains(data_name, Outer) THEN OuterVpc
        ELSE LET prefix == Slice(data_name, 1, Find(data_name, Vpc, 1)) IN
             IF prefix # <<>> THEN prefix \o Vpc ELSE None
    ELSE IF Contains(data_name, Inner) THEN InnerVpc
    ELSE IF Contains(data_name, Outer) THEN OuterVpc
    ELSE None

\* what one declaration file's text contributes
ExplicitOfText(content) == FindAll(ModulePattern, remove_comments(content), 1)
ImplicitOfText(content) ==
    { InferModule(d) : d \in FindAll(DataPattern, remove_comments(content), 1) }
        \ {None}
AliasesOfText(content) == FindAll(AliasPattern, remove_comments(content), 1)

-----------------------------------------------------------------------------
(* sorted() and str.join                                                   *)

\* the printable ASCII characters in code-point order, from 32 on (the
\* backslash and the backtick, which no name here contains, are spelled out)
Printable ==
    <<" ", "!", "\"", "#", "$", "%", "&", "'", "(", ")", "*", "+", ",", "-",
      ".", "/", "0", "1", "2", "3", "4", "5", "6", "7", "8", "9", ":", ";",
      "<", "=", ">", "?", "@", "A", "B", "C", "D", "E", "F", "G", "H", "I",
      "J", "K", "L", "M", "N", "O", "P", "Q", "R", "S", "T", "U", "V", "W",
      "X", "Y", "Z", "[", "backslash", "]", "^", "_", "backtick", "a", "b", "c", "d", "e",
      "f", "g", "h", "i", "j", "k", "l", "m", "n", "o", "p", "q", "r", "s",
      "t", "u", "v", "w", "x", "y", "z", "{", "|", "}", "~">>

\* ord(c)
CodePoint(c) ==
    IF c = "\n" THEN 10
    ELSE IF c = "\t" THEN 9
    ELSE 31 + (CHOOSE i \in 1..Len(Printable) : Printable[i] = c)

\* Python's a < b on str: the first differing character decides, a proper
\* prefix is smaller
StrLess(a, b) ==
    LET diff == { i \in 1..Len(a) : i > Len(b) \/ a[i] # b[i] } IN
    IF diff = {} THEN Len(a) < Len(b)
    ELSE LET i == Least(diff) IN
         i <= Len(b) /\ CodePoint(a[i]) < CodePoint(b[i])

\* the elements of S in descending order
RECURSIVE SortedDescending(_)
SortedDescending(S) ==
    IF S = {} THEN <<>>
    ELSE LET hi == CHOOSE x \in S : \A y \in S \ {x} : StrLess(y, x) IN
         <<hi>> \o SortedDescending(S \ {hi})

\* sorted(S) for a set (or the keys of a dict) of str
RECURSIVE Sorted(_)
Sorted(S) ==
    IF S = {} THEN <<>>
    ELSE LET lo == CHOOSE x \in S : \A y \in S \ {x} : StrLess(x, y) IN
         <<lo>> \o Sorted(S \ {lo})

\* sep.join(parts)
RECURSIVE Join(_, _)
Join(sep, parts) ==
    IF parts = <<>> THEN <<>>
    ELSE IF Len(parts) = 1 THEN parts[1]
    ELSE parts[1] \o sep \o Join(sep, Tail(parts))

-----------------------------------------------------------------------------
(* The disk                                                                *)

\* names that may appear under the modules directory
ModA == <<"a">>
ModB == <<"b">>
HiddenDir == <<".", "g">>
EntryNames == {ModA, ModB, InnerVpc, HiddenDir}

\* what each of them may be
KindsOf(name) ==
    IF name = ModB THEN {"file", "dir"}
    ELSE IF name = HiddenDir THEN {"dir"}
    ELSE {"none", "dir"}

\* file names inside a module directory
ProviderTf == <<"p", "r", "o", "v", "i", "d", "e", "r", ".", "t", "f">>
VersionsTf == <<"v", "e", "r", "s", "i", "o", "n", "s", ".", "t", "f">>
MainTf == <<"m", "a", "i", "n", ".", "t", "f">>
NotesTxt == <<"n", "o", "t", "e", "s", ".", "t", "x", "t">>
FileNames == {ProviderTf, VersionsTf, MainTf, NotesTxt}
DotTf == <<".", "t", "f">>

\* alias = "east"
\* # alias = "old"
TextEast ==
    <<"a", "l", "i", "a", "s", " ", "=", " ", "\"", "e", "a", "s", "t", "\"",
      "\n", "#", " ", "a", "l", "i", "a", "s", " ", "=", " ", "\"", "o", "l",
      "d", "\"">>

\* alias="west"
\* /* alias = "old" */ alias = "east"
TextWestEast ==
    <<"a", "l", "i", "a", "s", "=", "\"", "w", "e", "s", "t", "\"", "\n",
      "/", "*", " ", "a", "l", "i", "a", "s", " ", "=", " ", "\"", "o", "l",
      "d", "\"", " ", "*", "/", " ", "a", "l", "i", "a", "s", " ", "=", " ",
      "\"", "e", "a", "s", "t", "\"">>

\* module "b" {
\* data "t" "inner_db" {
TextB ==
    <<"m", "o", "d", "u", "l", "e", " ", "\"", "b", "\"", " ", "{", "\n",
      "d", "a", "t", "a", " ", "\"", "t", "\"", " ", "\"", "i", "n", "n",
      "e", "r", "_", "d", "b", "\"", " ", "{">>

\* module "a" {
\* // module "zz" {
\* data "t" "a_vpc_id" {
TextA ==
    <<"m", "o", "d", "u", "l", "e", " ", "\"", "a", "\"", " ", "{", "\n",
      "/", "/", " ", "m", "o", "d", "u", "l", "e", " ", "\"", "z", "z", "\"",
      " ", "{", "\n", "d", "a", "t", "a", " ", "\"", "t", "\"", " ", "\"",
      "a", "_", "v", "p", "c", "_", "i", "d", "\"", " ", "{">>

\* module "zz" {
TextZz ==
    <<"m", "o", "d", "u", "l", "e", " ", "\"", "z", "z", "\"", " ", "{">>

\* a file: absent, readable text, unreadable (open raises IOError), or bytes
\* that are not valid text (read raises UnicodeDecodeError)
Absent == [st |-> "absent", text |-> <<>>]
Ok(t) == [st |-> "ok", text |-> t]
Unreadable == [st |-> "eacces", text |-> <<>>]
Binary == [st |-> "binary", text |-> <<>>]

OptionsOf(fname) ==
    IF fname = ProviderTf THEN {Absent, Ok(TextEast), Unreadable}
    ELSE IF fname = VersionsTf THEN {Absent, Ok(TextWestEast), Binary}
    ELSE IF fname = MainTf THEN {Absent, Ok(TextB), Ok(TextA), Unreadable, Binary}
    ELSE {Absent, Ok(TextZz)}

\* most files a module directory holds
MaxFiles == 2

Present(layout) == { f \in FileNames : layout[f].st # "absent" }
EmptyLayout == [f \in FileNames |-> Absent]
Layouts ==
    { l \in { [f \in FileNames |->
                 IF f = ProviderTf THEN p
                 ELSE IF f = VersionsTf THEN v
                 ELSE IF f = MainTf THEN m
                 ELSE n] :
               p \in OptionsOf(ProviderTf), v \in OptionsOf(VersionsTf),
               m \in OptionsOf(MainTf), n \in OptionsOf(NotesTxt) } :
        Cardinality(Present(l)) <= MaxFiles }

\* what inner_vpc may hold: a versions.tf and a main.tf
InnerLayouts ==
    { l \in Layouts :
        /\ l[ProviderTf] = Absent
        /\ l[NotesTxt] = Absent
        /\ l[MainTf] # Ok(TextA) }

\* directories whose content varies; the other directories are empty
LayoutDirs == {ModA, InnerVpc}
LayoutsOf(name, kind) ==
    IF kind # "dir" \/ name \notin LayoutDirs THEN {EmptyLayout}
    ELSE IF name = InnerVpc THEN InnerLayouts
    ELSE Layouts

\* the disks the tool is run on
Roots ==
    { [n \in EntryNames |->
         IF n = ModA THEN a
         ELSE IF n = ModB THEN b
         ELSE IF n = InnerVpc THEN i
         ELSE g] :
       a \in KindsOf(ModA), b \in KindsOf(ModB),
       i \in KindsOf(InnerVpc), g \in KindsOf(HiddenDir) }

-----------------------------------------------------------------------------
(* The process                                                             *)

NoFile == <<"<", "n", "o", " ", "f", "i", "l", "e", ">">>
Running == -1
NoDir == "None"
RootDir == "modules_dir"

\* how often the tool is started
MaxRuns == 2

\* defaultdict(set) with no key yet; d.get(k, []) as a set; d[k].add(v) for
\* every v of vs (which creates the key only if vs is not empty)
EmptyDict == [k \in {} |-> {}]
Get(d, k) == IF k \in DOMAIN d THEN d[k] ELSE {}
AddAll(d, k, vs) ==
    IF vs = {} THEN d
    ELSE [j \in DOMAIN d \cup {k} |-> IF j = k THEN Get(d, k) \cup vs ELSE d[j]]

\* TFDeps.__init__
InitAnalyzer ==
    /\ modules_dir = NoDir
    /\ all_modules = {}
    /\ dependencies = EmptyDict
    /\ provider_aliases = EmptyDict

Init ==
    /\ entries \in Roots
    /\ \E la \in LayoutsOf(ModA, entries[ModA]),
          li \in LayoutsOf(InnerVpc, entries[InnerVpc]) :
         files = [n \in EntryNames |->
                    IF n = ModA THEN la
                    ELSE IF n = InnerVpc THEN li
                    ELSE EmptyLayout]
    /\ report_file = NoFile
    /\ pc = "main"
    /\ InitAnalyzer
    /\ modules = <<>>
    /\ idx = 1
    /\ stdout = <<>>
    /\ exit_status = Running
    /\ run_no = 1
    /\ prev_report = NoFile
    /\ input = <<>>
    /\ result = <<>>

\* sys.exit(status), after printing msgs
Exit(status, msgs) ==
    /\ pc' = "done"
    /\ exit_status' = status
    /\ stdout' = stdout \o msgs

\* an exception nothing catches: traceback, interpreter exits with status 1
Crash == Exit(1, <<"Traceback">>)

\* a configuration file without modules_dir does not stop the run
MainIgnoringNoConfig(hcl) ==
    /\ pc = "main"
    /\ UNCHANGED <<disk, report_file, all_modules, dependencies,
                   provider_aliases, modules, idx, run_no, prev_report, text>>
    /\ CASE hcl \in {"missing", "eacces"} ->
              Exit(1, <<"Error reading HCL file">>)
              /\ UNCHANGED modules_dir
         [] hcl = "binary" ->
              Crash /\ UNCHANGED modules_dir
         [] OTHER ->
              /\ modules_dir' = IF hcl = "noconfig" THEN NoDir ELSE RootDir
              /\ pc' = "scan"
              /\ UNCHANGED <<stdout, exit_status>>

\* main() up to and including run()'s call of extract_modules_dir: hcl is what
\* the configuration file turns out to be
Main(hcl) ==
    /\ pc = "main"
    /\ UNCHANGED <<disk, report_file, all_modules, dependencies,
                   provider_aliases, modules, idx, run_no, prev_report, text>>
    /\ CASE hcl = "missing" ->
              Exit(1, <<"Error: HCL file not found">>)
              /\ UNCHANGED modules_dir
         [] hcl = "eacces" ->
              Exit(1, <<"Error reading HCL file">>)
              /\ UNCHANGED modules_dir
         [] hcl = "binary" ->
              Crash /\ UNCHANGED modules_dir
         [] hcl = "noconfig" ->
              Exit(1, <<"Error: No modules_dir configuration found in HCL file">>)
              /\ UNCHANGED modules_dir
         [] OTHER ->
              /\ modules_dir' = RootDir
              /\ pc' = "scan"
              /\ UNCHANGED <<stdout, exit_status>>

\* every entry that is a directory, hidden or not
ScannedModulesWithHidden ==
    { item \in EntryNames : entries[item] = "dir" }

\* the loop of scan_modules over sorted(os.listdir(...))
ScannedModules ==
    { item \in EntryNames :
        /\ entries[item] # "none"
        /\ entries[item] = "dir"
        /\ ~StartsWith(item, <<".">>) }

\* scan_modules and run()'s test of its result: root is what the modules
\* directory turns out to be, order the list that is returned
ScanModulesReturning(root, order) ==
    /\ pc = "scan"
    /\ UNCHANGED <<disk, report_file, modules_dir, dependencies,
                   provider_aliases, idx, run_no, prev_report, text>>
    /\ CASE modules_dir = NoDir \/ root = "notdir" ->
              /\ Exit(1, <<"Error: Invalid modules directory",
                           "No modules found to analyze">>)
              /\ UNCHANGED <<all_modules, modules>>
         [] root = "listfail" ->
              /\ Exit(1, <<"Error scanning modules directory",
                           "No modules found to analyze">>)
              /\ UNCHANGED <<all_modules, modules>>
         [] OTHER ->
              /\ all_modules' = ScannedModules
              /\ modules' = order
              /\ IF order = <<>>
                 THEN Exit(1, <<"No modules found to analyze">>)
                 ELSE pc' = "analyze" /\ UNCHANGED <<stdout, exit_status>>

\* return sorted(modules)
ScanModules(root) == ScanModulesReturning(root, Sorted(ScannedModules))

\* the same scan with the modules handed to the loop in an arbitrary order
Orders(S) ==
    { o \in [1..Cardinality(S) -> S] :
        \A i, j \in 1..Cardinality(S) : i # j => o[i] # o[j] }
ScanAnyOrder(root) ==
    \E order \in Orders(ScannedModules) : ScanModulesReturning(root, order)

\* versions.tf is not looked at
AliasFilesProviderOnly(layout) == {ProviderTf} \cap Present(layout)

\* extract_provider_aliases: the two fixed files, when they are files
AliasFiles(layout) == {ProviderTf, VersionsTf} \cap Present(layout)
extract_provider_aliases(layout) ==
    UNION { AliasesOfText(layout[f].text) :
              f \in { g \in AliasFiles(layout) : layout[g].st = "ok" } }

\* [f for f in os.listdir(module_path) if f.endswith('.tf')]
TfFiles(layout) == { f \in Present(layout) : EndsWith(f, DotTf) }

extract_explicit_dependencies(layout) ==
    UNION { ExplicitOfText(layout[f].text) :
              f \in { g \in TfFiles(layout) : layout[g].st = "ok" } }

extract_implicit_dependencies(layout) ==
    UNION { ImplicitOfText(layout[f].text) :
              f \in { g \in TfFiles(layout) : layout[g].st = "ok" } }

\* f.read() raises UnicodeDecodeError, which `except IOError` does not catch
AliasReadRaises(layout) == \E f \in AliasFiles(layout) : layout[f].st = "binary"
DepsReadRaises(layout) == \E f \in TfFiles(layout) : layout[f].st = "binary"

\* the self-reference is kept
AllDepsKeepSelf(module_name) ==
    extract_explicit_dependencies(files[module_name])
        \cup extract_implicit_dependencies(files[module_name])

\* all_deps of analyze_module, after the discard of the module's own name
AllDeps(module_name) ==
    (extract_explicit_dependencies(files[module_name])
        \cup extract_implicit_dependencies(files[module_name])) \ {module_name}

\* the declaring set is replaced instead of extended
AddAliasesOverwrite(d, aliases, module_name) ==
    IF aliases = {} THEN d
    ELSE [a \in DOMAIN d \cup aliases |->
            IF a \in aliases THEN {module_name} ELSE d[a]]

\* for alias in aliases: self.provider_aliases[alias].add(module_name)
AddAliases(d, aliases, module_name) ==
    IF aliases = {} THEN d
    ELSE [a \in DOMAIN d \cup aliases |->
            IF a \in aliases THEN Get(d, a) \cup {module_name} ELSE d[a]]

\* one iteration of run()'s loop: analyze_module(modules[idx])
AnalyzeModule ==
    /\ pc = "analyze"
    /\ idx <= Len(modules)
    /\ UNCHANGED <<disk, report_file, modules_dir, all_modules, modules,
                   run_no, prev_report, text>>
    /\ LET module_name == modules[idx]
           layout == files[module_name]
       IN  IF AliasReadRaises(layout)
           THEN Crash /\ UNCHANGED <<provider_aliases, dependencies, idx>>
           ELSE /\ provider_aliases' =
                     AddAliases(provider_aliases,
                                extract_provider_aliases(layout), module_name)
                /\ IF DepsReadRaises(layout)
                   THEN Crash /\ UNCHANGED <<dependencies, idx>>
                   ELSE /\ dependencies' =
                             AddAll(dependencies, module_name,
                                    AllDeps(module_name))
                        /\ idx' = idx + 1
                        /\ pc' = IF idx = Len(modules) THEN "generate"
                                 ELSE "analyze"
                        /\ UNCHANGED <<stdout, exit_status>>

-----------------------------------------------------------------------------
(* generate_output                                                         *)

Dash == <<"-", " ">>
DependsOn ==
    <<" ", "(", "d", "e", "p", "e", "n", "d", "s", "_", "o", "n", ":", " ">>
CommaSpace == <<",", " ">>
Header == <<"/", "*">>
ModulesMarker == <<"M", "O", "D", "U", "L", "E", "S", ":">>
ProviderMarker == <<"P", "R", "O", "V", "I", "D", "E", "R", " ">>
Footer == <<"*", "/">>

\* the line of one module
ModuleLine(module, deps) ==
    IF deps # <<>>
    THEN Dash \o module \o DependsOn \o Join(CommaSpace, deps) \o <<")">>
    ELSE Dash \o module

\* the lines of the MODULES section, for the modules in the given order
ModuleLines(order) ==
    [i \in 1..Len(order) |->
        ModuleLine(order[i], Sorted(Get(dependencies, order[i])))]

\* the lines of one PROVIDER section
ProviderLines(alias) ==
    <<<<>>, ProviderMarker \o alias \o <<":">>>>
        \o [i \in 1..Cardinality(provider_aliases[alias]) |->
              Dash \o Sorted(provider_aliases[alias])[i]]

RECURSIVE ProviderSections(_)
ProviderSections(aliases) ==
    IF aliases = <<>> THEN <<>>
    ELSE ProviderLines(Head(aliases)) \o ProviderSections(Tail(aliases))

\* the modules and the aliases are written in descending order
OutputLinesDescending ==
    <<Header, ModulesMarker>>
        \o ModuleLines(SortedDescending(all_modules))
        \o ProviderSections(SortedDescending(DOMAIN provider_aliases))
        \o <<Footer>>

\* output_lines
OutputLines ==
    <<Header, ModulesMarker>>
        \o ModuleLines(Sorted(all_modules))
        \o ProviderSections(Sorted(DOMAIN provider_aliases))
        \o <<Footer>>

\* generate_output and run()'s return 0: writable tells whether
\* dependencies.txt can be opened for writing
GenerateOutput(writable) ==
    /\ pc = "generate"
    /\ UNCHANGED <<disk, analyzer, modules, idx, run_no, prev_report, text>>
    /\ IF writable
       THEN /\ report_file' = Join(<<NL>>, OutputLines)
            /\ Exit(0, <<"Successfully generated">>)
       ELSE /\ report_file' = report_file
            /\ Exit(0, <<"Error writing output file">>)

\* the tool is started again on the same disk, after a run that wrote its
\* report
Rerun ==
    /\ pc = "done"
    /\ run_no < MaxRuns
    /\ exit_status = 0
    /\ stdout = <<"Successfully generated">>
    /\ run_no' = run_no + 1
    /\ prev_report' = report_file
    /\ pc' = "main"
    /\ modules_dir' = NoDir
    /\ all_modules' = {}
    /\ dependencies' = EmptyDict
    /\ provider_aliases' = EmptyDict
    /\ modules' = <<>>
    /\ idx' = 1
    /\ stdout' = <<>>
    /\ exit_status' = Running
    /\ UNCHANGED <<disk, report_file, text>>

HclOutcomes == {"missing", "eacces", "binary", "noconfig", "ok"}
RootOutcomes == {"notdir", "listfail", "ok"}

Next ==
    \/ \E hcl \in HclOutcomes : Main(hcl)
    \/ \E root \in RootOutcomes : ScanModules(root)
    \/ AnalyzeModule
    \/ \E writable \in BOOLEAN : GenerateOutput(writable)
    \/ Rerun

Spec == Init /\ [][Next]_vars

\* the tool with the order of the aggregation loop left open
NextAnyOrder ==
    \/ \E hcl \in HclOutcomes : Main(hcl)
    \/ \E root \in RootOutcomes : ScanAnyOrder(root)
    \/ AnalyzeModule
    \/ \E writable \in BOOLEAN : GenerateOutput(writable)
    \/ Rerun

SpecAnyOrder == Init /\ [][NextAnyOrder]_vars

-----------------------------------------------------------------------------
(* The text functions on their own: comment stripping followed by the      *)
(* three extractions, and the naming-pattern inference                     *)

\* no run in progress
NoRun ==
    /\ entries = [n \in EntryNames |-> "none"]
    /\ files = [n \in EntryNames |-> EmptyLayout]
    /\ report_file = NoFile
    /\ InitAnalyzer
    /\ modules = <<>>
    /\ idx = 1
    /\ stdout = <<>>
    /\ exit_status = Running
    /\ run_no = 1
    /\ prev_report = NoFile

RECURSIVE Flatten(_)
Flatten(pieces) ==
    IF pieces = <<>> THEN <<>> ELSE Head(pieces) \o Flatten(Tail(pieces))

\* module "x" {
ModuleX ==
    <<"m", "o", "d", "u", "l", "e", " ", "\"", "x", "\"", " ", "{">>
\* data "t" "inner" {
DataInner ==
    <<"d", "a", "t", "a", " ", "\"", "t", "\"", " ", "\"", "i", "n", "n",
      "e", "r", "\"", " ", "{">>
\* alias = "e"
AliasE == <<"a", "l", "i", "a", "s", " ", "=", " ", "\"", "e", "\"">>

\* a declaration file is a sequence of these
Pieces ==
    {BlockOpen, BlockClose, SlashSlash, Hash, <<NL>>, <<"/">>,
     ModuleX, DataInner, AliasE}

\* most pieces in a file
MaxPieces == 4

InitExtract ==
    /\ NoRun
    /\ pc = "extract"
    /\ input \in UNION { [1..k -> Pieces] : k \in 0..MaxPieces }
    /\ result = <<>>

\* what extract_explicit_dependencies, extract_implicit_dependencies and
\* extract_provider_aliases get out of one file with this content
Extract ==
    /\ pc = "extract"
    /\ result' = [explicit |-> ExplicitOfText(Flatten(input)),
                  implicit |-> ImplicitOfText(Flatten(input)),
                  aliases |-> AliasesOfText(Flatten(input))]
    /\ pc' = "return"
    /\ UNCHANGED <<disk, report_file, analyzer, modules, idx, stdout,
                   exit_status, run_no, prev_report, input>>

NextExtract == Extract

SpecExtract == InitExtract /\ [][NextExtract]_vars

\* parts of data block names
NameParts ==
    {Vpc, Inner, Outer, <<"f", "o", "o">>, <<"_">>, <<"i", "n">>,
     <<"n", "e", "r">>}

\* most parts in a name
MaxParts == 3

AppInnerVpcLookup ==
    <<"a", "p", "p", "_", "i", "n", "n", "e", "r", "_", "v", "p", "c", "_",
      "l", "o", "o", "k", "u", "p">>
OuterNet == <<"o", "u", "t", "e", "r", "_", "n", "e", "t">>

DataNames ==
    { Flatten(ps) : ps \in UNION { [1..k -> NameParts] : k \in 1..MaxParts } }
        \cup {AppInnerVpcLookup, OuterNet}

InitInfer ==
    /\ NoRun
    /\ pc = "infer"
    /\ input \in DataNames
    /\ result = None

\* the body of the loop over data_blocks, for one data_name
Infer ==
    /\ pc = "infer"
    /\ result' = InferModule(input)
    /\ pc' = "return"
    /\ UNCHANGED <<disk, report_file, analyzer, modules, idx, stdout,
                   exit_status, run_no, prev_report, input>>

NextInfer == Infer

SpecInfer == InitInfer /\ [][NextInfer]_vars

-----------------------------------------------------------------------------
(* Reading a report back                                                   *)

\* s.split(sep), from index i on
RECURSIVE SplitOn(_, _, _)
SplitOn(s, sep, i) ==
    LET j == Find(s, sep, i) IN
    IF j = 0 THEN <<Slice(s, i, Len(s) + 1)>>
    ELSE <<Slice(s, i, j)>> \o SplitOn(s, sep, j + Len(sep))

ReportLines == SplitOn(report_file, <<NL>>, 1)

\* this run printed its success message: the report on disk is its report
Written == pc = "done" /\ stdout = <<"Successfully generated">>

\* the MODULES section: the lines after the marker, up to the first empty
\* line or the footer
ModulesSection(lines) ==
    3..(Least({ i \in 3..Len(lines) : lines[i] \in {<<>>, Footer} }) - 1)

\* a module line of the module called n
IsLineOf(line, n) ==
    line = Dash \o n \/ StartsWith(line, Dash \o n \o DependsOn)

\* the module a module line is about, and the names in its depends_on list
NameOfLine(line) ==
    LET j == Find(line, DependsOn, 1) IN
    Slice(line, Len(Dash) + 1, IF j = 0 THEN Len(line) + 1 ELSE j)
DepsOfLine(line) ==
    LET j == Find(line, DependsOn, 1) IN
    IF j = 0 THEN <<>>
    ELSE SplitOn(Slice(line, j + Len(DependsOn), Len(line)), CommaSpace, 1)

\* the PROVIDER marker lines, the alias of one, and the lines under it
ProviderMarks(lines) ==
    { i \in 1..Len(lines) : StartsWith(lines[i], ProviderMarker) }
AliasOfMark(line) == Slice(line, Len(ProviderMarker) + 1, Len(line))
MembersOfMark(lines, i) ==
    LET stop == Least({ j \in (i + 1)..Len(lines) : lines[j] \in {<<>>, Footer} })
    IN  [k \in 1..(stop - i - 1) |-> Slice(lines[i + k], Len(Dash) + 1,
                                            Len(lines[i + k]) + 1)]

Elements(seq) == { seq[i] : i \in 1..Len(seq) }

\* lexicographic order on strings by character code
RECURSIVE LexLess(_, _)
LexLess(a, b) ==
    IF b = <<>> THEN FALSE
    ELSE IF a = <<>> THEN TRUE
    ELSE IF Head(a) = Head(b) THEN LexLess(Tail(a), Tail(b))
    ELSE CodePoint(Head(a)) < CodePoint(Head(b))

\* sorted and without duplicates
StrictlyAscending(seq) ==
    \A k \in 1..(Len(seq) - 1) : LexLess(seq[k], seq[k + 1])

\* the non-hidden immediate subdirectories of the modules directory
NonHiddenDirs ==
    { n \in EntryNames : entries[n] = "dir" /\ Head(n) # "." }

\* every name a report could mention
KnownNames ==
    EntryNames \cup
    { <<"a", "_", "v", "p", "c">>, <<"z", "z">>, <<"o", "l", "d">>,
      <<"e", "a", "s", "t">>, <<"w", "e", "s", "t">>, OuterVpc }

-----------------------------------------------------------------------------
(* C1 *)

\* C1: after a successful run the MODULES section of the report has exactly
\* one line for every non-hidden subdirectory of the modules directory (the
\* list scan_modules returned), with or without dependencies, and no module
\* line for any other name, even one that occurs in a depends_on list.
C1_EveryModuleListedOnce ==
    Written =>
        LET lines == ReportLines
            sect == ModulesSection(lines)
        IN  /\ lines[1] = Header
            /\ lines[2] = ModulesMarker
            /\ Elements(modules) = NonHiddenDirs
            /\ \A n \in KnownNames :
                 Cardinality({ i \in sect : IsLineOf(lines[i], n) })
                     = IF n \in NonHiddenDirs THEN 1 ELSE 0
            /\ \A i \in sect : \E n \in NonHiddenDirs : IsLineOf(lines[i], n)

\* a report in which a depends on inner_vpc, which is no directory, and b
\* is listed without dependencies
C1_Witness ==
    /\ Written
    /\ entries[InnerVpc] = "none"
    /\ entries[ModB] = "dir"
    /\ InnerVpc \in Elements(DepsOfLine(ReportLines[3]))
    /\ ReportLines[4] = Dash \o ModB

-----------------------------------------------------------------------------
(* C2 *)

\* C2: no module is ever in its own dependency set: what analyze_module
\* stored for an analyzed module is its explicit and implicit dependencies
\* without its own name, and no module line of a report lists its module.
C2_NoSelfDependency ==
    /\ \A m \in DOMAIN dependencies : m \notin dependencies[m]
    /\ \A i \in 1..(idx - 1) :
         Get(dependencies, modules[i]) =
             (extract_explicit_dependencies(files[modules[i]])
                 \cup extract_implicit_dependencies(files[modules[i]]))
             \ {modules[i]}
    /\ Written =>
         \A i \in ModulesSection(ReportLines) :
             NameOfLine(ReportLines[i])
                 \notin Elements(DepsOfLine(ReportLines[i]))

\* a names itself in a module block, inner_vpc infers itself from a data
\* block, and both have been analyzed
C2_Witness ==
    /\ pc = "generate"
    /\ ModA \in all_modules
    /\ ModA \in extract_explicit_dependencies(files[ModA])
    /\ InnerVpc \in all_modules
    /\ InnerVpc \in extract_implicit_dependencies(files[InnerVpc])

-----------------------------------------------------------------------------
(* C3 *)

C3_StageInv ==
    /\ pc \in {"scan", "analyze", "generate"} =>
         modules_dir = RootDir /\ exit_status = Running
    /\ pc \in {"main", "scan"} =>
         /\ dependencies = EmptyDict
         /\ provider_aliases = EmptyDict
         /\ modules = <<>>
         /\ idx = 1
    /\ pc \in {"analyze", "generate"} =>
         modules # <<>> /\ Elements(modules) = all_modules
    /\ pc = "analyze" => idx <= Len(modules)
    /\ pc = "generate" => idx = Len(modules) + 1
    /\ pc = "done" /\ (modules_dir = NoDir \/ modules = <<>>) =>
         /\ exit_status # 0
         /\ idx = 1
         /\ dependencies = EmptyDict
         /\ provider_aliases = EmptyDict
         /\ report_file = prev_report
         /\ \A i \in 1..Len(stdout) : stdout[i] # "Successfully generated"

C3_StageStep ==
    /\ pc = "main" => pc' \in {"scan", "done"}
    /\ pc = "scan" => pc' \in {"analyze", "done"}
    /\ pc = "analyze" =>
         \/ pc' = "done" /\ exit_status' # 0
         \/ idx' = idx + 1 /\ pc' = "analyze" /\ idx' <= Len(modules)
         \/ idx' = idx + 1 /\ pc' = "generate" /\ idx' = Len(modules) + 1
    /\ pc = "generate" => pc' = "done"
    /\ pc = "done" => pc' = "main"
    /\ report_file' # report_file => pc = "generate"
    /\ dependencies' # dependencies \/ provider_aliases' # provider_aliases =>
         pc = "analyze" \/ pc' = "main"
    /\ modules' # modules \/ all_modules' # all_modules =>
         pc = "scan" \/ pc' = "main"

\* C3: a run goes resolve root, scan, aggregate every module, generate, in
\* that order; when the root is not resolved, is invalid, or no module is
\* found, the run stops there: nothing is scanned or analyzed after it and no
\* report is written.
C3_LinearAndShortCircuit == [](C3_StageInv) /\ [][C3_StageStep]_vars

\* the scan fails on a disk where module a has files to read
C3_Witness ==
    /\ pc = "done"
    /\ modules_dir = RootDir
    /\ modules = <<>>
    /\ entries[ModA] = "dir"
    /\ Present(files[ModA]) # {}

-----------------------------------------------------------------------------
(* C4 *)

\* C4: the exit status is non-zero exactly when the root directory is not
\* resolved, is invalid, or no module is found, and 0 in every other run.
C4_ExitStatus ==
    pc = "done" =>
        (exit_status # 0 <=> (modules_dir = NoDir \/ modules = <<>>))

-----------------------------------------------------------------------------
(* C5 *)

ReadFails(file) == file.st \in {"eacces", "binary"}

\* C5: when a provider.tf, versions.tf or other .tf file of a module cannot
\* be read, the run still ends with status 0 and without an unhandled fault,
\* and the file contributes nothing.
C5_ReadFailureIsLocal ==
    /\ pc = "done"
    /\ modules # <<>>
    /\ \E m \in all_modules : \E f \in FileNames \ {NotesTxt} :
         ReadFails(files[m][f])
    => /\ exit_status = 0
       /\ \A i \in 1..Len(stdout) : stdout[i] # "Traceback"
       /\ idx = Len(modules) + 1

-----------------------------------------------------------------------------
(* C6 *)

\* the positions of s inside comments, read left to right as a lexer does:
\* a closed /* ... */ block, or // or # up to the end of the line
RECURSIVE CommentPositions(_, _)
CommentPositions(s, i) ==
    LET marks == { j \in i..Len(s) :
                     \/ StartsAt(s, j, BlockOpen) /\ Find(s, BlockClose, j + 2) # 0
                     \/ StartsAt(s, j, SlashSlash)
                     \/ s[j] = "#" }
    IN  IF marks = {} THEN {}
        ELSE LET j == Least(marks)
                 stop == IF StartsAt(s, j, BlockOpen) /\ Find(s, BlockClose, j + 2) # 0
                         THEN Find(s, BlockClose, j + 2) + 2
                         ELSE EndOfLine(s, j)
             IN  j..(stop - 1) \cup CommentPositions(s, stop)

\* index in Flatten(pieces) of the first character of piece k
RECURSIVE OffsetOf(_, _)
OffsetOf(pieces, k) ==
    IF k = 1 THEN 1 ELSE OffsetOf(pieces, k - 1) + Len(pieces[k - 1])

\* some piece equal to p lies outside every comment
SomeLive(pieces, p) ==
    \E k \in 1..Len(pieces) :
        /\ pieces[k] = p
        /\ OffsetOf(pieces, k) \notin CommentPositions(Flatten(pieces), 1)

\* C6: comments are stripped before each of the three extractions: a module
\* block, a data block or an alias assignment that lies inside a /* ... */
\* comment or after // or # on its line is never extracted.
C6_CommentedNeverExtracted ==
    pc = "return" =>
        /\ result.explicit # {} => SomeLive(input, ModuleX)
        /\ result.implicit # {} => SomeLive(input, DataInner)
        /\ result.aliases # {} => SomeLive(input, AliasE)

-----------------------------------------------------------------------------
(* C7 *)

Occurs(p, s) ==
    \E k \in 1..(Len(s) - Len(p) + 1) : SubSeq(s, k, k + Len(p) - 1) = p

\* the text before the first _vpc of a name that contains _vpc
BeforeFirstVpc(s) ==
    LET k == CHOOSE n \in 1..Len(s) :
                 /\ SubSeq(s, n, n + 3) = Vpc
                 /\ \A j \in 1..(n - 1) : SubSeq(s, j, j + 3) # Vpc
    IN  SubSeq(s, 1, k - 1)

\* the ordered rules, first match wins
Expected(name) ==
    IF Occurs(Vpc, name) THEN
        IF Occurs(Inner, name) THEN InnerVpc
        ELSE IF Occurs(Outer, name) THEN OuterVpc
        ELSE IF BeforeFirstVpc(name) = <<>> THEN None
        ELSE BeforeFirstVpc(name) \o Vpc
    ELSE IF Occurs(Inner, name) THEN InnerVpc
    ELSE IF Occurs(Outer, name) THEN OuterVpc
    ELSE None

\* C7: for every data block name the inference gives the result of the
\* ordered rules: with _vpc in the name, inner_vpc if it has inner, else
\* outer_vpc if it has outer, else the text before the first _vpc followed by
\* _vpc, and nothing when that text is empty; without _vpc, inner_vpc if it
\* has inner, else outer_vpc if it has outer, else nothing.
C7_InferenceRules ==
    pc = "return" =>
        /\ result = Expected(input)
        /\ Occurs(Inner, input) /\ Occurs(Outer, input) => result = InnerVpc
        /\ input = AppInnerVpcLookup => result = InnerVpc
        /\ input = <<"f", "o", "o">> \o Vpc => result = <<"f", "o", "o">> \o Vpc
        /\ input = Vpc => result = None
        /\ input = OuterNet => result = OuterVpc

\* a name with outer, inner and _vpc in it, inferred as inner_vpc
C7_Witness ==
    /\ pc = "return"
    /\ input = Outer \o Inner \o Vpc
    /\ result = InnerVpc

-----------------------------------------------------------------------------
(* C8 *)

\* C8: in every report the module lines are sorted, every depends_on list is
\* sorted without duplicates, the PROVIDER sections come in sorted alias
\* order, and the modules under each are sorted without duplicates.
C8_ReportSorted ==
    Written =>
        LET lines == ReportLines
            sect == ModulesSection(lines)
            marks == ProviderMarks(lines)
        IN  /\ \A i, j \in sect :
                 i < j => LexLess(NameOfLine(lines[i]), NameOfLine(lines[j]))
            /\ \A i \in sect : StrictlyAscending(DepsOfLine(lines[i]))
            /\ \A i, j \in marks :
                 i < j => LexLess(AliasOfMark(lines[i]), AliasOfMark(lines[j]))
            /\ \A i \in marks : StrictlyAscending(MembersOfMark(lines, i))

\* a report with three module lines, a depends_on list of two names, two
\* PROVIDER sections and two modules under one of them
C8_Witness ==
    /\ Written
    /\ Cardinality(ModulesSection(ReportLines)) = 3
    /\ \E i \in ModulesSection(ReportLines) :
         Len(DepsOfLine(ReportLines[i])) >= 2
    /\ Cardinality(ProviderMarks(ReportLines)) = 2
    /\ \E i \in ProviderMarks(ReportLines) :
         Len(MembersOfMark(ReportLines, i)) = 2

-----------------------------------------------------------------------------
(* C9 *)

\* the two maps as the disk alone determines them
DependenciesOnDisk ==
    [m \in { n \in NonHiddenDirs : AllDeps(n) # {} } |-> AllDeps(m)]
AliasesOnDisk ==
    LET declared == UNION { extract_provider_aliases(files[m]) :
                              m \in NonHiddenDirs }
    IN  [a \in declared |->
           { m \in NonHiddenDirs : a \in extract_provider_aliases(files[m]) }]

\* C9: whatever the order in which the modules are visited (each once), the
\* two maps after the aggregation are the ones the disk determines, and a
\* second run on the unchanged disk writes a report identical to the first.
C9_Deterministic ==
    /\ pc = "generate" =>
         /\ dependencies = DependenciesOnDisk
         /\ provider_aliases = AliasesOnDisk
    /\ Written /\ run_no > 1 => report_file = prev_report

\* a second run that visited two or more modules, not in sorted order, the
\* later-sorted one first, and whose report names an alias with two modules
C9_Witness ==
    /\ Written
    /\ run_no = 2
    /\ Len(modules) >= 2
    /\ modules # Sorted(all_modules)
    /\ dependencies # EmptyDict
    /\ \E a \in DOMAIN provider_aliases : Cardinality(provider_aliases[a]) = 2
    /\ report_file = prev_report

-----------------------------------------------------------------------------
(* C10 *)

East == <<"e", "a", "s", "t">>
West == <<"w", "e", "s", "t">>

\* the aliases a provider.tf or versions.tf declares outside comments
DeclaredIn(file) ==
    IF file = Ok(TextEast) THEN {East}
    ELSE IF file = Ok(TextWestEast) THEN {West, East}
    ELSE {}
Declarers(alias) ==
    { m \in NonHiddenDirs :
        \E f \in {ProviderTf, VersionsTf} : alias \in DeclaredIn(files[m][f]) }

\* C10: after the aggregation the registry maps every declared alias to
\* exactly the scanned modules declaring it in provider.tf or versions.tf;
\* the report has one PROVIDER section per declared alias, listing each of
\* its declaring modules once, and no empty section.
C10_AliasRegistry ==
    /\ pc = "generate" \/ Written =>
         /\ DOMAIN provider_aliases =
                { a \in KnownNames : Declarers(a) # {} }
         /\ \A a \in DOMAIN provider_aliases :
                provider_aliases[a] = Declarers(a)
    /\ Written =>
         LET lines == ReportLines
             marks == ProviderMarks(lines)
         IN  /\ \A a \in KnownNames :
                  Cardinality({ i \in marks : AliasOfMark(lines[i]) = a })
                      = IF Declarers(a) # {} THEN 1 ELSE 0
             /\ \A i \in marks :
                  LET members == MembersOfMark(lines, i) IN
                  /\ members # <<>>
                  /\ Elements(members) = Declarers(AliasOfMark(lines[i]))
                  /\ Len(members) = Cardinality(Elements(members))

\* east is declared by a in provider.tf and by inner_vpc in versions.tf, b
\* declares nothing, and the report is written
C10_Witness ==
    /\ Written
    /\ files[ModA][ProviderTf] = Ok(TextEast)
    /\ InnerVpc \in all_modules
    /\ files[InnerVpc][VersionsTf] = Ok(TextWestEast)
    /\ ModB \in all_modules
    /\ provider_aliases[East] = {ModA, InnerVpc}

====
